---------------------------- MODULE Spec2Model ----------------------------
(***************************************************************************)
(* A model of osmpq (OSM PBF -> Parquet): the primitive block decoder      *)
(* (osm/elements.py), the frame reader (osm/blob.py), the rotating parquet *)
(* writer (arrow.py), the per-partition element writer                     *)
(* (element_converter.py) and the multiprocessing statistics pipeline      *)
(* (main.py).                                                              *)
(*                                                                         *)
(* Python values are modelled as follows.  An optional value is a sequence *)
(* of length 0 (None) or 1.  A dict is a function.  A generator is the     *)
(* record [yielded, err] of the items it yields before it ends (err =      *)
(* "none") or raises (err = the exception's name).                         *)
(***************************************************************************)
EXTENDS Integers, Sequences, FiniteSets, TLC

VARIABLES
    \* ---- primitive block decoder (osm/elements.py)
    block,      \* the PrimitiveBlock a PrimitiveBlockDecoder was built on
    op,         \* the decoder routine called last ("none" before any call)
    arg,        \* the input the call is made on
    result,     \* what it returned
    \* ---- frame reader (osm/blob.py)
    stream,     \* the bytes of the source file
    frames,     \* the frames written to it, in order
    pos,        \* the position of the open source
    blobs,      \* the BlobData read_blobs has yielded so far
    rpc,        \* "writing", "reading", "done" (the generator returned) or the error raised
    rcall,      \* the last call of BlobStreamReader.read_n_at: its n, its offset and what it returned
    \* ---- rotating parquet writer (arrow.py) and its callers
    wcfg,       \* the WriterConfig
    pbw,        \* stream -> the ParquetBatchWriter object: _file_index and _writer
    pq,         \* stream -> the physical files: opened, closed, ParquetWriter.close() calls
    wlast,      \* what the last call on a ParquetBatchWriter did
    wtotal,     \* the non-empty batches handed to write() so far, whether each had 400
                \* rows, and whether the caller has called close()
    faults,     \* the I/O errors raised so far
    wlog,       \* the num_rows of the non-empty batches write() returned normally for, in call order
    \* ---- per-partition element writer (element_converter.py)
    ppc,        \* where process(rows) is: "rows", "returned" or "raised"
    pdone,      \* the rows taken from the partition so far
    closeRun,   \* the streams Writer.__exit__ has called close() on
    \* ---- statistics pipeline (main.py)
    ftypes,     \* the declared type of each frame of the file
    nitems,     \* the blobs read_blob_bytes yields for the file
    mpc,        \* where main() is: "put", "join" or "finished"
    nput,       \* the blobs main() has put on the queue
    qbuf,       \* multiprocessing.Queue: objects put, not yet flushed to the pipe
    qpipe,      \* multiprocessing.Queue: objects in the pipe, seen by empty() and get()
    done,       \* done.value
    wpc,        \* where each decoder_process is
    wdata,      \* the object each decoder_process holds
    decoded     \* the objects the workers have decoded and counted

decVars == <<block, op, arg, result>>

blobVars == <<stream, frames, pos, blobs, rpc, rcall>>

writerVars == <<wcfg, pbw, pq, wlast, wtotal, faults, wlog>>

procVars == <<ppc, pdone, closeRun>>

pipeVars == <<ftypes, nitems, mpc, nput, qbuf, qpipe, done, wpc, wdata, decoded>>

vars == <<decVars, blobVars, writerVars, procVars, pipeVars>>

\* what the steps of one component leave alone
notDecVars == <<blobVars, writerVars, procVars, pipeVars>>

notBlobVars == <<decVars, writerVars, procVars, pipeVars>>

notWriterVars == <<decVars, blobVars, procVars, pipeVars>>

notProcVars == <<decVars, blobVars, pipeVars>>

notPipeVars == <<decVars, blobVars, writerVars, procVars>>

-----------------------------------------------------------------------------
(* Generic helpers for Python values *)

None == <<>>

Some(x) == <<x>>

\* Python's `x or None` on an integer
OrNone(x) == IF x = 0 THEN None ELSE Some(x)

BoundedSeq(S, n) == UNION {[1..k -> S] : k \in 0..n}

Min(S) == CHOOSE x \in S : \A y \in S : x <= y

Gen(seq) == [yielded |-> seq, err |-> "none"]

RECURSIVE SumTo(_, _)
\* d[1] + ... + d[i]
SumTo(d, i) == IF i = 0 THEN 0 ELSE SumTo(d, i - 1) + d[i]

EmptyTags == [k \in {} |-> ""]

\* dict item assignment  tags[key] = value
DictSet(tags, key, value) ==
    [k \in (DOMAIN tags) \cup {key} |-> IF k = key THEN value ELSE tags[k]]

\* a coordinate in degrees: num degrees, or num * 1e-9 degrees
Degrees(n) == [num |-> n, unit |-> "deg"]

NanoDegrees(n) == [num |-> n, unit |-> "1e-9 deg"]

-----------------------------------------------------------------------------
(* Bounds of the decoder inputs *)

MaxLen == 3         \* length of a delta sequence
MaxNodes == 2       \* dense nodes (and dense infos) in a group
MaxKeysVals == 4    \* length of a dense keys_vals sequence

Deltas == {-2, 3, 5}
LatDeltas == {-2, 5}
LonDeltas == {3}
SidDeltas == {-1, 0, 1}
KeyValIndices == {0, 1, 2}

\* the string tables of the modelled blocks (entry 0 is the empty string)
StringTables ==
    { <<"", "a", "b">>,
      <<"", "k1", "v1", "k2", "v2", "k3", "v3">> }

Blocks ==
    [ stringtable : StringTables,
      granularity : {0, 100},          \* 0: the field is unset
      lat_offset : {0, 7},
      lon_offset : {9},
      date_granularity : {0} ]

-----------------------------------------------------------------------------
(* osm/elements.py *)

RECURSIVE delta_decode_loop(_, _, _, _)
delta_decode_loop(values, i, current, out) ==
    IF i > Len(values) THEN out
    ELSE LET value == values[i]
             next == current + value      \* current += value
         IN  delta_decode_loop(values, i + 1, next, Append(out, value))  \* yield value

\* delta_decode(values): current = 0; for value in values: current += value; yield value
delta_decode(values) == delta_decode_loop(values, 1, 0, <<>>)

\* ValueDecoder.__init__: `block.x or default`
ValueDecoder(b) ==
    [ granularity |-> IF b.granularity = 0 THEN 100 ELSE b.granularity,
      lat_offset |-> b.lat_offset,
      lon_offset |-> b.lon_offset,
      date_granularity |-> IF b.date_granularity = 0 THEN 1000 ELSE b.date_granularity ]

\* ValueDecoder.lat: 0.000000001 * (lat_offset + granularity * value)
ValueDecoder_lat(vd, value) == NanoDegrees(vd.lat_offset + (vd.granularity * value))

\* ValueDecoder.lon
ValueDecoder_lon(vd, value) == NanoDegrees(vd.lon_offset + (vd.granularity * value))

\* ValueDecoder.timestamp
ValueDecoder_timestamp(vd, value) == value * vd.date_granularity

\* PrimitiveBlockDecoder.decode_string: string_table[index] on a Python list
\* (a negative index counts from the end; outside -len .. len-1 is an IndexError)
decode_string(b, index) ==
    LET n == Len(b.stringtable)
    IN  IF index >= 0 /\ index < n THEN [ok |-> TRUE, s |-> b.stringtable[index + 1]]
        ELSE IF index < 0 /\ index >= -n THEN [ok |-> TRUE, s |-> b.stringtable[n + index + 1]]
        ELSE [ok |-> FALSE, s |-> "IndexError"]

\* the user_sid field of decode_info / decode_dense_info
decode_user_sid(b, user_sid) ==
    IF user_sid = 0 THEN [ok |-> TRUE, v |-> None]
    ELSE LET s == decode_string(b, user_sid)
         IN  IF s.ok THEN [ok |-> TRUE, v |-> Some(s.s)] ELSE [ok |-> FALSE, v |-> None]

RECURSIVE decode_dense_info_loop(_, _, _, _)
decode_dense_info_loop(b, cols, j, out) ==
    IF \E m \in 1..5 : j > Len(cols[m]) THEN Gen(out)       \* zip ends with its shortest input
    ELSE LET user == decode_user_sid(b, cols[5][j])
         IN  IF ~user.ok THEN [yielded |-> out, err |-> "IndexError"]
             ELSE decode_dense_info_loop(b, cols, j + 1,
                      Append(out, [ version |-> OrNone(cols[1][j]),
                                    timestamp |-> OrNone(cols[2][j]),
                                    changeset |-> OrNone(cols[3][j]),
                                    uid |-> OrNone(cols[4][j]),
                                    user_sid |-> user.v ]))

\* PrimitiveBlockDecoder.decode_dense_info
decode_dense_info(b, dense) ==
    decode_dense_info_loop(b,
        << dense.version,
           delta_decode(dense.timestamp),
           delta_decode(dense.changeset),
           delta_decode(dense.uid),
           delta_decode(dense.user_sid) >>, 1, <<>>)

RECURSIVE decode_dense_tags_loop(_, _, _, _, _)
\* i is the 0-based index of the code; tags is the one dict made before the loop
decode_dense_tags_loop(b, keys_vals, i, tags, out) ==
    IF ~(i < Len(keys_vals))
    THEN [ yielded |-> out,
           err |-> IF DOMAIN tags = {} THEN "none" ELSE "AssertionError",   \* assert not tags
           tags |-> tags ]
    ELSE IF keys_vals[i + 1] = 0
    THEN decode_dense_tags_loop(b, keys_vals, i + 1, tags, Append(out, tags))   \* yield tags
    ELSE LET key == decode_string(b, keys_vals[i + 1])
         IN  IF ~key.ok \/ ~(i + 1 < Len(keys_vals))
             THEN [yielded |-> out, err |-> "IndexError", tags |-> tags]
             ELSE LET value == decode_string(b, keys_vals[i + 2])
                  IN  IF ~value.ok
                      THEN [yielded |-> out, err |-> "IndexError", tags |-> tags]
                      ELSE decode_dense_tags_loop(b, keys_vals, i + 2,
                               DictSet(tags, key.s, value.s), out)

\* PrimitiveBlockDecoder.decode_dense_tags: the dicts as they are when yielded
decode_dense_tags(b, keys_vals) ==
    decode_dense_tags_loop(b, keys_vals, 0, EmptyTags, <<>>)

RECURSIVE decode_dense_nodes_loop(_, _, _)
\* one step of zip(...) over the five generators, advanced in argument order
decode_dense_nodes_loop(gens, j, out) ==
    LET stops == {m \in 1..5 : j > Len(gens[m].yielded)}
    IN  IF stops # {}
        THEN [yielded |-> out, err |-> gens[Min(stops)].err]
        ELSE decode_dense_nodes_loop(gens, j + 1,
                 Append(out, [ id |-> gens[1].yielded[j],
                               info |-> gens[2].yielded[j],
                               tags |-> IF DOMAIN gens[3].yielded[j] = {}
                                        THEN None ELSE Some(gens[3].yielded[j]),
                               latitude |-> IF gens[4].yielded[j] = 0 THEN None
                                            ELSE Some(Degrees(gens[4].yielded[j])),
                               longitude |-> IF gens[5].yielded[j] = 0 THEN None
                                             ELSE Some(Degrees(gens[5].yielded[j])) ]))

\* PrimitiveBlockDecoder.decode_dense_nodes: each node as it is when yielded
decode_dense_nodes(b, dense) ==
    decode_dense_nodes_loop(
        << Gen(delta_decode(dense.id)),
           decode_dense_info(b, dense.denseinfo),
           decode_dense_tags(b, dense.keys_vals),
           Gen(delta_decode(dense.lat)),
           Gen(delta_decode(dense.lon)) >>, 1, <<>>)

\* PrimitiveBlockDecoder.decode_node: `self.value_decoder(node.lat)` calls the
\* ValueDecoder object, which defines no __call__: after decode_info and
\* decode_tags have been evaluated the call raises TypeError
decode_node(b, node) ==
    IF node.info.user_sid # 0 /\ ~decode_string(b, node.info.user_sid).ok
    THEN [ok |-> FALSE, err |-> "IndexError"]
    ELSE IF \E i \in 1..Min({Len(node.keys), Len(node.vals)}) :
                ~decode_string(b, node.keys[i]).ok \/ ~decode_string(b, node.vals[i]).ok
    THEN [ok |-> FALSE, err |-> "IndexError"]
    ELSE [ok |-> FALSE, err |-> "TypeError"]

-----------------------------------------------------------------------------
(* The decoder's callers: the input is drawn in DecInit, a step calls the *)
(* decoding routine the input is for                                      *)

DenseInfos ==
    UNION { [ version : [1..n -> {1}],
              timestamp : [1..n -> {2}],
              changeset : [1..n -> {0}],
              uid : [1..n -> {0}],
              user_sid : [1..n -> SidDeltas] ] : n \in 0..MaxNodes }

DenseInputs ==
    UNION { [ kind : {"dense"},
              id : [1..n -> {1}],
              lat : [1..n -> LatDeltas],
              lon : [1..n -> LonDeltas],
              keys_vals : BoundedSeq(KeyValIndices, MaxKeysVals),
              denseinfo : DenseInfos ] : n \in 0..MaxNodes }

NodeInputs ==
    [ kind : {"node"},
      id : {1}, lat : LatDeltas, lon : LonDeltas,
      keys : {<<>>, <<1>>, <<3>>}, vals : {<<>>, <<2>>},
      info : [version : {1}, timestamp : {0}, changeset : {0}, uid : {0}, user_sid : {0, 1, 3}] ]

\* two delta-encoded sequences of one block, decoded one after the other
DeltaInputs ==
    [ kind : {"deltas"},
      values : BoundedSeq(Deltas, MaxLen),
      more : BoundedSeq(LatDeltas, MaxLen - 1) ]

\* the flat tag sequence of three dense nodes: {1:2}, {}, {3:4, 5:6}
ExampleKeysVals == <<1, 2, 0, 0, 3, 4, 5, 6, 0>>

KeysValsInputs ==
    [ kind : {"keys_vals"},
      keys_vals : BoundedSeq(KeyValIndices, MaxKeysVals) \cup {ExampleKeysVals} ]

DecIdle ==
    /\ block = <<>>
    /\ arg = <<>>
    /\ op = "none"
    /\ result = <<>>

DecInit ==
    /\ block \in Blocks
    /\ arg \in DeltaInputs \cup KeysValsInputs \cup DenseInputs \cup NodeInputs
    /\ op = "none"
    /\ result = <<>>

CallDeltaDecode ==
    /\ arg.kind = "deltas"
    /\ op = "none"
    /\ op' = "delta_decode"
    /\ result' = delta_decode(arg.values)
    /\ UNCHANGED <<block, arg, notDecVars>>

CallDeltaDecodeNext ==
    /\ arg.kind = "deltas"
    /\ op = "delta_decode"
    /\ op' = "delta_decode_next"
    /\ result' = delta_decode(arg.more)
    /\ UNCHANGED <<block, arg, notDecVars>>

CallDecodeDenseTags ==
    /\ arg.kind = "keys_vals"
    /\ op = "none"
    /\ op' = "decode_dense_tags"
    /\ result' = decode_dense_tags(block, arg.keys_vals)
    /\ UNCHANGED <<block, arg, notDecVars>>

CallDecodeDenseNodes ==
    /\ arg.kind = "dense"
    /\ op = "none"
    /\ op' = "decode_dense_nodes"
    /\ result' = decode_dense_nodes(block, arg)
    /\ UNCHANGED <<block, arg, notDecVars>>

CallDecodeNode ==
    /\ arg.kind = "node"
    /\ op = "none"
    /\ op' = "decode_node"
    /\ result' = decode_node(block, arg)
    /\ UNCHANGED <<block, arg, notDecVars>>

DecNext ==
    \/ CallDeltaDecode
    \/ CallDeltaDecodeNext
    \/ CallDecodeDenseTags
    \/ CallDecodeDenseNodes
    \/ CallDecodeNode

-----------------------------------------------------------------------------
(* osm/blob.py: the frame reader *)

MaxFrames == 2      \* frames in the source file
MaxPayload == 2     \* bytes in a frame's payload

PayloadBytes == {0, 255}

\* BlobType: the ASCII bytes of "OSMHeader" and "OSMData"
OSM_HEADER == <<79, 83, 77, 72, 101, 97, 100, 101, 114>>

OSM_DATA == <<79, 83, 77, 68, 97, 116, 97>>

RECURSIVE from_bytes_little(_)
\* int.from_bytes(data, "little")
from_bytes_little(data) ==
    IF data = <<>> THEN 0
    ELSE data[1] + 256 * from_bytes_little(SubSeq(data, 2, Len(data)))

RECURSIVE from_bytes_big(_)
\* int.from_bytes(data, "big"), on however many bytes data holds
from_bytes_big(data) ==
    IF data = <<>> THEN 0
    ELSE from_bytes_big(SubSeq(data, 1, Len(data) - 1)) * 256 + data[Len(data)]

\* n.to_bytes(4, "big")
to_bytes_big4(n) ==
    << (n \div 16777216) % 256, (n \div 65536) % 256, (n \div 256) % 256, n % 256 >>

RECURSIVE varint(_)
\* protobuf's base-128 varint of a non-negative integer
varint(n) == IF n < 128 THEN <<n>> ELSE <<128 + (n % 128)>> \o varint(n \div 128)

RECURSIVE read_varint(_, _)
\* the varint at 1-based index i of data: its value and the index after it
read_varint(data, i) ==
    IF i > Len(data) THEN [ok |-> FALSE, value |-> 0, next |-> i]
    ELSE IF data[i] < 128 THEN [ok |-> TRUE, value |-> data[i], next |-> i + 1]
    ELSE LET rest == read_varint(data, i + 1)
         IN  [ok |-> rest.ok, value |-> (data[i] - 128) + 128 * rest.value, next |-> rest.next]

\* BlobHeader.SerializeToString(): field 1 (type, length-delimited), field 3 (datasize, varint)
SerializeBlobHeader(type, datasize) ==
    <<10>> \o varint(Len(type)) \o type \o <<24>> \o varint(datasize)

RECURSIVE ParseBlobHeaderFrom(_, _, _)
\* BlobHeader.FromString: the fields in any order; `seen` holds the numbers of
\* the fields parsed
ParseBlobHeaderFrom(data, i, header) ==
    IF i > Len(data) THEN [ok |-> TRUE, header |-> header]
    ELSE IF data[i] = 10
    THEN LET n == read_varint(data, i + 1)
         IN  IF ~n.ok \/ n.next + n.value - 1 > Len(data)
             THEN [ok |-> FALSE, header |-> header]
             ELSE ParseBlobHeaderFrom(data, n.next + n.value,
                      [header EXCEPT !.type = SubSeq(data, n.next, n.next + n.value - 1),
                                     !.seen = @ \cup {1}])
    ELSE IF data[i] = 24
    THEN LET n == read_varint(data, i + 1)
         IN  IF ~n.ok THEN [ok |-> FALSE, header |-> header]
             ELSE ParseBlobHeaderFrom(data, n.next,
                      [header EXCEPT !.datasize = n.value, !.seen = @ \cup {3}])
    ELSE [ok |-> FALSE, header |-> header]

\* type and datasize are required fields of BlobHeader: FromString raises
\* DecodeError when one is missing
ParseBlobHeader(data) ==
    LET parsed == ParseBlobHeaderFrom(data, 1, [type |-> <<>>, datasize |-> 0, seen |-> {}])
    IN  [ ok |-> parsed.ok /\ parsed.header.seen = {1, 3},
          header |-> [type |-> parsed.header.type, datasize |-> parsed.header.datasize] ]

\* source.read(n): at most n bytes from position p, fewer at the end of the file
Read(s, p, n) ==
    LET last == IF p + n > Len(s) THEN Len(s) ELSE p + n
    IN  [data |-> SubSeq(s, p + 1, last), pos |-> last]

\* read_blob_data(source): a BlobData, None at the end of the file, or the error raised
read_blob_data(s, p) ==
    LET data == Read(s, p, 4)
    IN  IF Len(data.data) = 0 THEN [kind |-> "None", pos |-> data.pos]
        ELSE LET header_size == from_bytes_big(data.data)
                 header_data == Read(s, data.pos, header_size)
                 blob_header == ParseBlobHeader(header_data.data)
             IN  IF ~blob_header.ok THEN [kind |-> "DecodeError", pos |-> header_data.pos]
                 ELSE LET blob_data == Read(s, header_data.pos, blob_header.header.datasize)
                      IN  [ kind |-> "BlobData",
                            pos |-> blob_data.pos,
                            blob |-> [ header |-> blob_header.header,
                                       header_data |-> header_data.data,
                                       blob_data |-> blob_data.data ] ]

BlobIdle ==
    /\ stream = <<>>
    /\ frames = <<>>
    /\ pos = 0
    /\ blobs = <<>>
    /\ rpc = "idle"
    /\ rcall = None

BlobInit ==
    /\ stream = <<>>
    /\ frames = <<>>
    /\ pos = 0
    /\ blobs = <<>>
    /\ rpc = "writing"
    /\ rcall = None

\* the producer of the file appends one frame: 4-byte big-endian header
\* length, the header bytes, then datasize payload bytes
WriteFrame ==
    /\ rpc = "writing"
    /\ Len(frames) < MaxFrames
    /\ \E type \in {OSM_HEADER, OSM_DATA}, payload \in BoundedSeq(PayloadBytes, MaxPayload) :
         LET header_data == SerializeBlobHeader(type, Len(payload))
         IN  /\ stream' = stream \o to_bytes_big4(Len(header_data)) \o header_data \o payload
             /\ frames' = Append(frames, [ type |-> type, header_data |-> header_data,
                                           blob_data |-> payload ])
    /\ UNCHANGED <<pos, blobs, rpc, rcall, notBlobVars>>

\* open(path, "rb") and the call of read_blobs(fin)
OpenSource ==
    /\ rpc = "writing"
    /\ rpc' = "reading"
    /\ pos' = 0
    /\ UNCHANGED <<stream, frames, blobs, rcall, notBlobVars>>

\* one iteration of read_blobs: read_blob_data, then return or yield
ReadBlobsStep ==
    /\ rpc = "reading"
    /\ LET data == read_blob_data(stream, pos)
       IN  /\ pos' = data.pos
           /\ IF data.kind = "None" THEN rpc' = "done" /\ UNCHANGED blobs
              ELSE IF data.kind = "BlobData" THEN blobs' = Append(blobs, data.blob) /\ UNCHANGED rpc
              ELSE rpc' = data.kind /\ UNCHANGED blobs
    /\ UNCHANGED <<stream, frames, rcall, notBlobVars>>

BlobNext ==
    \/ WriteFrame
    \/ OpenSource
    \/ ReadBlobsStep

\* open(path, "rb") of a file that lost its last n bytes, and the call of
\* read_blobs(fin)
OpenTruncated ==
    /\ rpc = "writing"
    /\ \E n \in 1..Len(stream) : stream' = SubSeq(stream, 1, Len(stream) - n)
    /\ rpc' = "reading"
    /\ pos' = 0
    /\ UNCHANGED <<frames, blobs, rcall, notBlobVars>>

-----------------------------------------------------------------------------
(* spark.py: BlobStreamReader *)

MaxBatch == 2       \* the n of a call of read_n_at

RECURSIVE read_n_at_loop(_, _, _, _)
\* `for _ in range(n)` with k iterations left, the source at position p
read_n_at_loop(s, k, p, out) ==
    IF k = 0 THEN [blobs |-> out, offset |-> p, err |-> "none"]
    ELSE LET blob == read_blob_data(s, p)
         IN  IF blob.kind = "None" THEN [blobs |-> out, offset |-> blob.pos, err |-> "none"]
             ELSE IF blob.kind = "BlobData"
             THEN read_n_at_loop(s, k - 1, blob.pos, Append(out, blob.blob))
             ELSE [blobs |-> out, offset |-> blob.pos, err |-> blob.kind]

\* a read_n_at without fin.seek(offset): every call reads from the start
read_n_at_no_seek(s, n, offset) == read_n_at_loop(s, n, 0, <<>>)

\* BlobStreamReader.read_n_at: fin.seek(offset), up to n frames, fin.tell()
read_n_at(s, n, offset) == read_n_at_loop(s, n, offset, <<>>)

\* BlobStreamReader.initialOffset: the stream starts at offset 0
InitialOffset ==
    /\ rpc = "writing"
    /\ rpc' = "resuming"
    /\ pos' = 0
    /\ UNCHANGED <<stream, frames, blobs, rcall, notBlobVars>>

\* read_n_at(n, offset) called with the offset the previous call returned
ReadNAt ==
    /\ rpc = "resuming"
    /\ \E n \in 0..MaxBatch :
         LET r == read_n_at(stream, n, pos)
         IN  /\ rcall' = Some([ n |-> n, offset |-> pos, returned |-> Len(r.blobs),
                                new_offset |-> r.offset, before |-> Len(blobs) ])
             /\ IF r.err = "none"
                THEN /\ blobs' = blobs \o r.blobs
                     /\ pos' = r.offset
                     /\ UNCHANGED rpc
                ELSE /\ rpc' = r.err
                     /\ UNCHANGED <<blobs, pos>>
    /\ UNCHANGED <<stream, frames, notBlobVars>>

ResumeNext ==
    \/ WriteFrame
    \/ InitialOffset
    \/ ReadNAt

ShortReadNext ==
    \/ WriteFrame
    \/ OpenSource
    \/ OpenTruncated
    \/ ReadBlobsStep

-----------------------------------------------------------------------------
(* arrow.py: ParquetBatchWriter *)

MaxWrites == 10     \* non-empty batches written to one ParquetBatchWriter
MaxFaults == 1      \* I/O errors the filesystem raises in one run

\* rows of the node lists handed to record_batch_for_nodes (0: an empty list)
BatchRows == {0, 1, 400}

\* WriterConfig: max_rows_per_file and max_file_size, each None or a number
WriterConfigs ==
    [ max_rows_per_file : {None, Some(0), Some(2), Some(1000)},
      max_file_size : {None, Some(0), Some(2)} ]

\* what the collaborators do during one call: the step at which the filesystem
\* raises (if any) and the size fs.get_file_info reports
Envs ==
    [fail : {"none", "close"}, size : {1, 3}]
        \cup [fail : {"open", "write_batch", "get_file_info"}, size : {1}]

\* ParquetBatchWriter.__init__: _file_index = 0, _writer = None
NewParquetBatchWriter == [file_index |-> 0, writer |-> None]

\* the files of one stream: how many were opened and closed, the calls of
\* ParquetWriter.close, and (where `log` is set) each file opened, in order,
\* with its index and the num_rows of the batches appended to it
NoFiles == [opened |-> 0, closed |-> 0, close_calls |-> 0, log |-> FALSE, data |-> <<>>]

NoFilesLogged == [NoFiles EXCEPT !.log = TRUE]

\* pq.ParquetWriter(filename, ...) creates the file of this index
create_file(files, index) ==
    [files EXCEPT !.opened = @ + 1,
                  !.data = IF files.log THEN Append(@, [index |-> index, batches |-> <<>>])
                           ELSE @]

\* self.writer.write_batch(batch) appends to the file the Writer holds, the
\* last one created
write_batch(files, num_rows) ==
    [files EXCEPT !.data = IF files.log
                           THEN [@ EXCEPT ![Len(@)].batches = Append(@, num_rows)]
                           ELSE @]

\* `self._writer.written_batches % 10 == 0`
SizeProbeEvery == 10

\* record_batch_for_nodes(nodes): None for an empty list, else a RecordBatch of len(nodes) rows
record_batch_for_nodes(n) == IF n = 0 THEN None ELSE Some(n)

\* a _get_writer that does not advance _file_index: every file gets the same name
get_writer_same_index(w, files, env) ==
    IF w.writer = None
    THEN IF env.fail = "open"
         THEN [ w |-> w, files |-> files, raised |-> TRUE ]
         ELSE [ w |-> [ file_index |-> w.file_index,
                        writer |-> Some([ index |-> w.file_index,
                                          written_rows |-> 0,
                                          written_batches |-> 0 ]) ],
                files |-> create_file(files, w.file_index),
                raised |-> FALSE ]
    ELSE [w |-> w, files |-> files, raised |-> FALSE]

\* ParquetBatchWriter._get_writer
get_writer(w, files, env) ==
    IF w.writer = None
    THEN IF env.fail = "open"      \* pq.ParquetWriter(...) raises after _file_index += 1
         THEN [ w |-> [w EXCEPT !.file_index = @ + 1], files |-> files, raised |-> TRUE ]
         ELSE [ w |-> [ file_index |-> w.file_index + 1,
                        writer |-> Some([ index |-> w.file_index + 1,
                                          written_rows |-> 0,
                                          written_batches |-> 0 ]) ],
                files |-> create_file(files, w.file_index + 1),
                raised |-> FALSE ]
    ELSE [w |-> w, files |-> files, raised |-> FALSE]

\* Writer.write: write_batch, then the two counters
Writer_write(writer, num_rows, env) ==
    IF env.fail = "write_batch"
    THEN [writer |-> writer, raised |-> TRUE]
    ELSE [ writer |-> [writer EXCEPT !.written_rows = @ + num_rows,
                                      !.written_batches = @ + 1],
           raised |-> FALSE ]

\* the size trigger alone, on the two inputs it reads
size_trigger(cfg, written_batches, env, every) ==
    IF cfg.max_file_size # None /\ written_batches % every = 0
    THEN IF env.fail = "get_file_info"
         THEN [switch |-> FALSE, by |-> "none", probed |-> TRUE, raised |-> TRUE]
         ELSE IF env.size >= cfg.max_file_size[1]
         THEN [switch |-> TRUE, by |-> "size", probed |-> TRUE, raised |-> FALSE]
         ELSE [switch |-> FALSE, by |-> "none", probed |-> TRUE, raised |-> FALSE]
    ELSE [switch |-> FALSE, by |-> "none", probed |-> FALSE, raised |-> FALSE]

\* a _should_switch_writer whose row test is `>` instead of `>=`
should_switch_writer_gt(w, cfg, env) ==
    IF w.writer = None
    THEN [switch |-> FALSE, by |-> "none", probed |-> FALSE, raised |-> FALSE]
    ELSE IF /\ cfg.max_rows_per_file # None
            /\ cfg.max_rows_per_file[1] # 0
            /\ w.writer[1].written_rows > cfg.max_rows_per_file[1]
    THEN [switch |-> TRUE, by |-> "rows", probed |-> FALSE, raised |-> FALSE]
    ELSE size_trigger(cfg, w.writer[1].written_batches, env, SizeProbeEvery)

\* a _should_switch_writer that probes the size after every batch
should_switch_writer_every(w, cfg, env) ==
    IF w.writer = None
    THEN [switch |-> FALSE, by |-> "none", probed |-> FALSE, raised |-> FALSE]
    ELSE IF /\ cfg.max_rows_per_file # None
            /\ cfg.max_rows_per_file[1] # 0
            /\ w.writer[1].written_rows >= cfg.max_rows_per_file[1]
    THEN [switch |-> TRUE, by |-> "rows", probed |-> FALSE, raised |-> FALSE]
    ELSE size_trigger(cfg, w.writer[1].written_batches, env, 1)

\* ParquetBatchWriter._should_switch_writer (by: the trigger that returned True)
should_switch_writer(w, cfg, env) ==
    IF w.writer = None
    THEN [switch |-> FALSE, by |-> "none", probed |-> FALSE, raised |-> FALSE]
    ELSE IF /\ cfg.max_rows_per_file # None
            /\ cfg.max_rows_per_file[1] # 0          \* `if self.writer_config.max_rows_per_file:`
            /\ w.writer[1].written_rows >= cfg.max_rows_per_file[1]
    THEN [switch |-> TRUE, by |-> "rows", probed |-> FALSE, raised |-> FALSE]
    ELSE size_trigger(cfg, w.writer[1].written_batches, env, SizeProbeEvery)

\* a close() that does not clear _writer
PBW_close_keep(w, files, env) ==
    IF w.writer # None
    THEN IF env.fail = "close"
         THEN [ w |-> w, files |-> [files EXCEPT !.close_calls = @ + 1], raised |-> TRUE ]
         ELSE [ w |-> w,
                files |-> [files EXCEPT !.close_calls = @ + 1, !.closed = @ + 1],
                raised |-> FALSE ]
    ELSE [w |-> w, files |-> files, raised |-> FALSE]

\* ParquetBatchWriter.close
PBW_close(w, files, env) ==
    IF w.writer # None
    THEN IF env.fail = "close"     \* self._writer.close() raises: _writer is not cleared
         THEN [ w |-> w, files |-> [files EXCEPT !.close_calls = @ + 1], raised |-> TRUE ]
         ELSE [ w |-> [w EXCEPT !.writer = None],
                files |-> [files EXCEPT !.close_calls = @ + 1, !.closed = @ + 1],
                raised |-> FALSE ]
    ELSE [w |-> w, files |-> files, raised |-> FALSE]

\* the record of a call: the operation, its batch, whether it raised, whether
\* it opened a file, the written_rows and written_batches of the file after
\* the append, whether fs.get_file_info was called and the size it reported,
\* the trigger that made _should_switch_writer return True, whether the
\* call before it on the same object was a close(), and for a call of the
\* element writer the error raised while decoding, the Blob message it was
\* given and the bytes decompress_blob returned
NoCall ==
    [ op |-> "none", stream |-> "", batch |-> None, raised |-> FALSE, opened |-> FALSE,
      rows |-> 0, batches |-> 0, probed |-> FALSE, size |-> None, by |-> "none",
      again |-> FALSE, err |-> "", blob |-> None, data |-> None ]

\* ParquetBatchWriter.write from `writer = self._get_writer()` on
PBW_write_batch(w, files, cfg, batch, env) ==
    LET got == get_writer(w, files, env)
        opened == w.writer = None /\ ~got.raised
    IN  IF got.raised
        THEN [ w |-> got.w, files |-> got.files,
               last |-> [NoCall EXCEPT !.op = "write", !.batch = batch, !.raised = TRUE] ]
        ELSE LET wrote == Writer_write(got.w.writer[1], batch[1], env)
                 w1 == [got.w EXCEPT !.writer = Some(wrote.writer)]
                 seen == [NoCall EXCEPT !.op = "write", !.batch = batch, !.opened = opened,
                                        !.rows = wrote.writer.written_rows,
                                        !.batches = wrote.writer.written_batches]
                 files1 == write_batch(got.files, batch[1])
             IN  IF wrote.raised
                 THEN [w |-> w1, files |-> got.files, last |-> [seen EXCEPT !.raised = TRUE]]
                 ELSE LET sw == should_switch_writer(w1, cfg, env)
                          seen2 == [seen EXCEPT !.probed = sw.probed, !.by = sw.by,
                                                !.size = IF sw.probed /\ ~sw.raised
                                                         THEN Some(env.size) ELSE None]
                      IN  IF sw.raised
                          THEN [ w |-> w1, files |-> files1,
                                 last |-> [seen2 EXCEPT !.raised = TRUE] ]
                          ELSE IF sw.switch
                          THEN LET cl == PBW_close(w1, files1, env)
                               IN  [ w |-> cl.w, files |-> cl.files,
                                     last |-> [seen2 EXCEPT !.raised = cl.raised] ]
                          ELSE [w |-> w1, files |-> files1, last |-> seen2]

\* a write() that gets the writer before it looks at the batch
PBW_write_eager(w, files, cfg, batch, env) ==
    IF batch = None
    THEN LET got == get_writer(w, files, env)
         IN  [ w |-> got.w, files |-> got.files,
               last |-> [NoCall EXCEPT !.op = "write", !.raised = got.raised] ]
    ELSE PBW_write_batch(w, files, cfg, batch, env)

\* ParquetBatchWriter.write
PBW_write(w, files, cfg, batch, env) ==
    IF batch = None
    THEN [w |-> w, files |-> files, last |-> [NoCall EXCEPT !.op = "write"]]
    ELSE PBW_write_batch(w, files, cfg, batch, env)

\* the collaborators may raise only while the run's fault budget lasts
EnvsNow == {env \in Envs : env.fail # "none" => faults < MaxFaults}

CountFault(raised) == faults' = IF raised THEN faults + 1 ELSE faults

WriterIdle ==
    /\ wcfg = <<>>
    /\ pbw = <<>>
    /\ pq = <<>>
    /\ wlast = NoCall
    /\ wtotal = [batches |-> 0, all400 |-> TRUE, closes |-> FALSE]
    /\ faults = 0
    /\ wlog = <<>>

\* pbf_converter.write_records, element_converter.Writer.__init__: a new
\* ParquetBatchWriter per stream
WriterInit ==
    /\ wcfg \in WriterConfigs
    /\ pbw = [s \in {"blobs"} |-> NewParquetBatchWriter]
    /\ pq = [s \in {"blobs"} |-> NoFiles]
    /\ wlast = NoCall
    /\ wtotal = [batches |-> 0, all400 |-> TRUE, closes |-> FALSE]
    /\ faults = 0
    /\ wlog = <<>>

\* writer.write(record_batch_for_nodes(nodes)) for a list of n nodes
CallWrite ==
    /\ \E n \in BatchRows, env \in EnvsNow :
         LET batch == record_batch_for_nodes(n)
             r == PBW_write(pbw["blobs"], pq["blobs"], wcfg, batch, env)
         IN  /\ n # 0 => wtotal.batches < MaxWrites
             /\ pbw' = [pbw EXCEPT !["blobs"] = r.w]
             /\ pq' = [pq EXCEPT !["blobs"] = r.files]
             /\ wlast' = [r.last EXCEPT !.stream = "blobs"]
             /\ wtotal' = IF n = 0 THEN wtotal
                          ELSE [ batches |-> wtotal.batches + 1,
                                 all400 |-> wtotal.all400 /\ n = 400,
                                 closes |-> wtotal.closes ]
             /\ CountFault(r.last.raised)
    /\ UNCHANGED <<wcfg, wlog, notWriterVars>>

\* writer.close(), also run by ParquetBatchWriter.__exit__
CallClose ==
    /\ \E env \in EnvsNow :
         LET r == PBW_close(pbw["blobs"], pq["blobs"], env)
         IN  /\ pbw' = [pbw EXCEPT !["blobs"] = r.w]
             /\ pq' = [pq EXCEPT !["blobs"] = r.files]
             /\ wlast' = [NoCall EXCEPT !.op = "close", !.stream = "blobs", !.raised = r.raised,
                                        !.again = (wlast.op = "close" /\ ~wlast.raised)]
             /\ CountFault(r.raised)
    /\ wtotal' = [wtotal EXCEPT !.closes = TRUE]
    /\ UNCHANGED <<wcfg, wlog, notWriterVars>>

WriterNext ==
    \/ CallWrite
    \/ CallClose

MaxRecords == 11    \* non-empty record batches handed to write_records

\* write_records after ParquetBatchWriter(...): the contents of the files are recorded
RecordsInit ==
    /\ wcfg \in WriterConfigs
    /\ pbw = [s \in {"blobs"} |-> NewParquetBatchWriter]
    /\ pq = [s \in {"blobs"} |-> NoFilesLogged]
    /\ wlast = NoCall
    /\ wtotal = [batches |-> 0, all400 |-> TRUE, closes |-> FALSE]
    /\ faults = 0
    /\ wlog = <<>>

\* writer.write(record): the k-th non-empty record batch has k rows, which
\* tells the batches apart; None stands for a call without a batch
WriteRecord ==
    /\ ~wtotal.closes
    /\ \E empty \in BOOLEAN, env \in EnvsNow :
         LET batch == IF empty THEN None ELSE Some(Len(wlog) + 1)
             r == PBW_write(pbw["blobs"], pq["blobs"], wcfg, batch, env)
         IN  /\ ~empty => Len(wlog) < MaxRecords
             /\ pbw' = [pbw EXCEPT !["blobs"] = r.w]
             /\ pq' = [pq EXCEPT !["blobs"] = r.files]
             /\ wlast' = [r.last EXCEPT !.stream = "blobs"]
             /\ wlog' = IF empty \/ r.last.raised THEN wlog ELSE Append(wlog, batch[1])
             /\ CountFault(r.last.raised)
    /\ UNCHANGED <<wcfg, wtotal, notWriterVars>>

\* `with writer` is left, after the last record or on an error: writer.close()
CloseRecords ==
    /\ ~wtotal.closes
    /\ wtotal' = [wtotal EXCEPT !.closes = TRUE]
    /\ \E env \in EnvsNow :
         LET r == PBW_close(pbw["blobs"], pq["blobs"], env)
         IN  /\ pbw' = [pbw EXCEPT !["blobs"] = r.w]
             /\ pq' = [pq EXCEPT !["blobs"] = r.files]
             /\ wlast' = [NoCall EXCEPT !.op = "close", !.stream = "blobs", !.raised = r.raised]
             /\ CountFault(r.raised)
    /\ UNCHANGED <<wcfg, wlog, notWriterVars>>

RecordsNext ==
    \/ WriteRecord
    \/ CloseRecords

-----------------------------------------------------------------------------
(* element_converter.py: Writer and make_processor *)

MaxRows == 3        \* rows in a partition

Streams == {"nodes", "ways", "relations"}

\* the bytes of a payload: how they are encoded, whether they are intact,
\* and the nodes of the block they hold
PayloadData ==
    [enc : {"plain", "zlib", "zstd"}, intact : {TRUE}, nodes : {0, 2}]
        \cup {[enc |-> "plain", intact |-> FALSE, nodes |-> 0]}

\* the empty bytes of a field that is not set
NoPayload == [enc |-> "plain", intact |-> TRUE, nodes |-> 0]

\* a Blob message: the variant of its `data` oneof ("none": unset) and the
\* bytes of that field
BlobMessages ==
    [variant : {"raw", "zlib_data", "zstd_data"}, payload : PayloadData]
        \cup {[variant |-> "none", payload |-> NoPayload]}

\* the rows of a partition; a row of another type is skipped unread
BlobRows ==
    [blob_type : {"OSMHeader", "OSMData"}, blob : BlobMessages]
        \cup {[blob_type |-> "Other", blob |-> [variant |-> "none", payload |-> NoPayload]]}

\* zlib.decompress / zstd.decompress: the plain bytes, or the codec's error
decompress(codec, payload) ==
    IF payload.enc = codec /\ payload.intact
    THEN [ok |-> TRUE, err |-> "", data |-> Some([payload EXCEPT !.enc = "plain"])]
    ELSE [ok |-> FALSE, err |-> "DecompressError", data |-> None]

\* a decompress_blob that returns the empty field when no variant is set
decompress_blob_lenient(blob) ==
    IF blob.variant = "raw" THEN [ok |-> TRUE, err |-> "", data |-> Some(blob.payload)]
    ELSE IF blob.variant = "zlib_data" THEN decompress("zlib", blob.payload)
    ELSE IF blob.variant = "zstd_data" THEN decompress("zstd", blob.payload)
    ELSE [ok |-> TRUE, err |-> "", data |-> Some(blob.payload)]

\* decompress_blob: the bytes of the variant that is set, ValueError if none is
decompress_blob(blob) ==
    IF blob.variant = "raw" THEN [ok |-> TRUE, err |-> "", data |-> Some(blob.payload)]
    ELSE IF blob.variant = "zlib_data" THEN decompress("zlib", blob.payload)
    ELSE IF blob.variant = "zstd_data" THEN decompress("zstd", blob.payload)
    ELSE [ok |-> FALSE, err |-> "ValueError", data |-> None]

\* decode_primtive_blob / decode_header_blob: decompress_blob, then FromString
decode_blob_message(blob) ==
    LET bytes == decompress_blob(blob)
    IN  IF ~bytes.ok THEN bytes
        ELSE IF bytes.data[1].enc # "plain" \/ ~bytes.data[1].intact
        THEN [ok |-> FALSE, err |-> "DecodeError", data |-> bytes.data]
        ELSE bytes

\* list(decode_nodes(decoder)): the nodes of the block
decode_nodes(primitive_block) == primitive_block.nodes

\* Writer.write_elements: only the nodes stream is written
write_elements(ws, files, cfg, blob, env) ==
    LET msg == decode_blob_message(blob)
    IN  IF ~msg.ok
        THEN [ ws |-> ws, files |-> files, raised |-> TRUE, fault |-> FALSE,
               last |-> [NoCall EXCEPT !.op = "elements", !.raised = TRUE, !.err = msg.err,
                                       !.blob = Some(blob), !.data = msg.data] ]
        ELSE LET r == PBW_write(ws["nodes"], files["nodes"], cfg,
                                record_batch_for_nodes(decode_nodes(msg.data[1])), env)
             IN  [ ws |-> [ws EXCEPT !["nodes"] = r.w],
                   files |-> [files EXCEPT !["nodes"] = r.files],
                   raised |-> r.last.raised, fault |-> r.last.raised,
                   last |-> [r.last EXCEPT !.op = "elements", !.stream = "nodes",
                                           !.blob = Some(blob), !.data = msg.data] ]

\* Writer.write_header: decode_header_blob, then header.json is written
write_header(ws, files, blob, env) ==
    LET header == decode_blob_message(blob)
    IN  IF ~header.ok
        THEN [ ws |-> ws, files |-> files, raised |-> TRUE, fault |-> FALSE,
               last |-> [NoCall EXCEPT !.op = "header", !.raised = TRUE, !.err = header.err,
                                       !.blob = Some(blob), !.data = header.data] ]
        ELSE [ ws |-> ws, files |-> files,
               raised |-> env.fail = "open", fault |-> env.fail = "open",
               last |-> [NoCall EXCEPT !.op = "header", !.raised = (env.fail = "open"),
                                       !.blob = Some(blob), !.data = header.data] ]

\* Writer.__exit__: nodes_writer.close(); ways_writer.close(); relations_writer.close()
Writer_exit(ws, files, envs) ==
    LET n == PBW_close(ws["nodes"], files["nodes"], envs["nodes"])
    IN  IF n.raised
        THEN [ ws |-> [ws EXCEPT !["nodes"] = n.w],
               files |-> [files EXCEPT !["nodes"] = n.files],
               raised |-> TRUE, ran |-> {"nodes"} ]
        ELSE LET y == PBW_close(ws["ways"], files["ways"], envs["ways"])
             IN  IF y.raised
                 THEN [ ws |-> [ws EXCEPT !["nodes"] = n.w, !["ways"] = y.w],
                        files |-> [files EXCEPT !["nodes"] = n.files, !["ways"] = y.files],
                        raised |-> TRUE, ran |-> {"nodes", "ways"} ]
                 ELSE LET r == PBW_close(ws["relations"], files["relations"],
                                         envs["relations"])
                      IN  [ ws |-> [ws EXCEPT !["nodes"] = n.w, !["ways"] = y.w,
                                              !["relations"] = r.w],
                            files |-> [files EXCEPT !["nodes"] = n.files,
                                                    !["ways"] = y.files,
                                                    !["relations"] = r.files],
                            raised |-> r.raised, ran |-> Streams ]

ProcIdle ==
    /\ ppc = "idle"
    /\ pdone = 0
    /\ closeRun = {}

\* process(rows) after `with Writer(root_path, config=config) as writer`
ProcInit ==
    /\ wcfg \in WriterConfigs
    /\ pbw = [s \in Streams |-> NewParquetBatchWriter]
    /\ pq = [s \in Streams |-> NoFilesLogged]
    /\ wlast = NoCall
    /\ wtotal = [batches |-> 0, all400 |-> TRUE, closes |-> FALSE]
    /\ faults = 0
    /\ wlog = <<>>
    /\ ppc = "rows"
    /\ pdone = 0
    /\ closeRun = {}

\* the with statement leaves its body: __exit__ runs; an exception it raises
\* replaces the one the body raised, otherwise that one is raised again
LeaveWith(ws, files, bodyRaised, bodyFault) ==
    \E failing \in Streams \cup {"nobody"} :
        LET envs == [st \in Streams |->
                        [fail |-> IF st = failing THEN "close" ELSE "none", size |-> 1]]
            x == Writer_exit(ws, files, envs)
            nfaults == faults + (IF bodyFault THEN 1 ELSE 0)
        IN  /\ x.raised <=> failing # "nobody"
            /\ x.raised => nfaults < MaxFaults
            /\ pbw' = x.ws
            /\ pq' = x.files
            /\ closeRun' = x.ran
            /\ faults' = nfaults + (IF x.raised THEN 1 ELSE 0)
            /\ ppc' = IF x.raised \/ bodyRaised THEN "raised" ELSE "returned"

\* one iteration of `for row in rows`, with the exit of the with statement
\* when the iteration raises
ProcessRow ==
    /\ ppc = "rows"
    /\ pdone < MaxRows
    /\ pdone' = pdone + 1
    /\ \E row \in BlobRows, env \in EnvsNow :
         IF row.blob_type = "Other"
         THEN /\ wlast' = NoCall
              /\ UNCHANGED <<pbw, pq, faults, ppc, closeRun>>
         ELSE LET r == IF row.blob_type = "OSMHeader"
                       THEN write_header(pbw, pq, row.blob, env)
                       ELSE write_elements(pbw, pq, wcfg, row.blob, env)
              IN  /\ wlast' = r.last
                  /\ IF r.raised
                     THEN LeaveWith(r.ws, r.files, TRUE, r.fault)
                     ELSE /\ pbw' = r.ws
                          /\ pq' = r.files
                          /\ UNCHANGED <<faults, ppc, closeRun>>
    /\ UNCHANGED <<wcfg, wtotal, wlog, notProcVars>>

\* `rows` is exhausted: the with statement is left normally
RowsExhausted ==
    /\ ppc = "rows"
    /\ LeaveWith(pbw, pq, FALSE, FALSE)
    /\ UNCHANGED <<wcfg, wlast, wtotal, wlog, pdone, notProcVars>>

ProcNext ==
    \/ ProcessRow
    \/ RowsExhausted

-----------------------------------------------------------------------------
(* main.py: the producer and the decoder processes *)

MaxItems == 2       \* blobs in the file

NumWorkers == 2     \* decoder processes started

Workers == 1..NumWorkers

\* read_blob_bytes(fin): the bytes of the Blob message of every frame, in
\* file order (a blob is named here by the place of its frame in the file)
read_blob_bytes(file) == [i \in 1..Len(file) |-> i]

PipeIdle ==
    /\ ftypes = <<>>
    /\ nitems = 0
    /\ mpc = "idle"
    /\ nput = 0
    /\ qbuf = <<>>
    /\ qpipe = <<>>
    /\ done = 1
    /\ wpc = <<>>
    /\ wdata = <<>>
    /\ decoded = {}

\* main() after the workers are started: the queue is empty, done.value is 1
PipeInit ==
    /\ ftypes \in BoundedSeq({"OSMHeader", "OSMData"}, MaxItems)
    /\ nitems = Len(read_blob_bytes(ftypes))
    /\ mpc = "put"
    /\ nput = 0
    /\ qbuf = <<>>
    /\ qpipe = <<>>
    /\ done = 1
    /\ wpc = [w \in Workers |-> "loop"]
    /\ wdata = [w \in Workers |-> None]
    /\ decoded = {}

\* queue.put(blob): multiprocessing.Queue.put appends the object to the
\* queue's buffer and returns; a feeder thread writes it to the pipe later
ProducerPut ==
    /\ mpc = "put"
    /\ nput < nitems
    /\ nput' = nput + 1
    /\ qbuf' = Append(qbuf, read_blob_bytes(ftypes)[nput + 1])
    /\ UNCHANGED <<ftypes, nitems, mpc, qpipe, done, wpc, wdata, decoded, notPipeVars>>

\* the feeder thread of the queue flushes the oldest buffered object to the pipe
FeederFlush ==
    /\ qbuf # <<>>
    /\ qpipe' = Append(qpipe, Head(qbuf))
    /\ qbuf' = Tail(qbuf)
    /\ UNCHANGED <<ftypes, nitems, mpc, nput, done, wpc, wdata, decoded, notPipeVars>>

\* the loop over read_blob_bytes(fin) ends: done.value = 0
ProducerDone ==
    /\ mpc = "put"
    /\ nput = nitems
    /\ done' = 0
    /\ mpc' = "join"
    /\ UNCHANGED <<ftypes, nitems, nput, qbuf, qpipe, wpc, wdata, decoded, notPipeVars>>

\* for w in worker: w.join()
ProducerJoin ==
    /\ mpc = "join"
    /\ \A w \in Workers : wpc[w] \in {"exited", "crashed"}
    /\ mpc' = "finished"
    /\ UNCHANGED <<ftypes, nitems, nput, qbuf, qpipe, done, wpc, wdata, decoded, notPipeVars>>

\* while done.value == 1 or ...: the left operand
WorkerCheckDone(w) ==
    /\ wpc[w] = "loop"
    /\ wpc' = [wpc EXCEPT ![w] = IF done = 1 THEN "get" ELSE "empty"]
    /\ UNCHANGED <<ftypes, nitems, mpc, nput, qbuf, qpipe, done, wdata, decoded, notPipeVars>>

\* ... or not queue.empty(): empty() polls the pipe
WorkerCheckEmpty(w) ==
    /\ wpc[w] = "empty"
    /\ wpc' = [wpc EXCEPT ![w] = IF qpipe = <<>> THEN "exited" ELSE "get"]
    /\ UNCHANGED <<ftypes, nitems, mpc, nput, qbuf, qpipe, done, wdata, decoded, notPipeVars>>

\* data = queue.get(timeout=1) returns an object
WorkerGet(w) ==
    /\ wpc[w] = "get"
    /\ qpipe # <<>>
    /\ wdata' = [wdata EXCEPT ![w] = Some(Head(qpipe))]
    /\ qpipe' = Tail(qpipe)
    /\ wpc' = [wpc EXCEPT ![w] = "decode"]
    /\ UNCHANGED <<ftypes, nitems, mpc, nput, qbuf, done, decoded, notPipeVars>>

\* queue.get(timeout=1) raises Empty: except Exception: continue
WorkerTimeout(w) ==
    /\ wpc[w] = "get"
    /\ qpipe = <<>>
    /\ wpc' = [wpc EXCEPT ![w] = "loop"]
    /\ UNCHANGED <<ftypes, nitems, mpc, nput, qbuf, qpipe, done, wdata, decoded, notPipeVars>>

\* the object is decompressed and decoded, its elements counted
WorkerDecode(w) ==
    /\ wpc[w] = "decode"
    /\ decoded' = decoded \cup {wdata[w][1]}
    /\ wdata' = [wdata EXCEPT ![w] = None]
    /\ wpc' = [wpc EXCEPT ![w] = "loop"]
    /\ UNCHANGED <<ftypes, nitems, mpc, nput, qbuf, qpipe, done, notPipeVars>>

\* the bytes of a header block do not parse as a PrimitiveBlock: FromString
\* raises and the worker process ends
WorkerDecodeError(w) ==
    /\ wpc[w] = "decode"
    /\ ftypes[wdata[w][1]] = "OSMHeader"
    /\ wdata' = [wdata EXCEPT ![w] = None]
    /\ wpc' = [wpc EXCEPT ![w] = "crashed"]
    /\ UNCHANGED <<ftypes, nitems, mpc, nput, qbuf, qpipe, done, decoded, notPipeVars>>

\* one step of decoder_process in worker w
Worker(w) ==
    \/ WorkerCheckDone(w)
    \/ WorkerCheckEmpty(w)
    \/ WorkerGet(w)
    \/ WorkerTimeout(w)
    \/ WorkerDecode(w)
    \/ WorkerDecodeError(w)

WorkerStep == \E w \in Workers : Worker(w)

PipeNext ==
    \/ ProducerPut
    \/ FeederFlush
    \/ ProducerDone
    \/ ProducerJoin
    \/ WorkerStep

-----------------------------------------------------------------------------
(* Specifications *)

InitDecode == DecInit /\ BlobIdle /\ WriterIdle /\ ProcIdle /\ PipeIdle

SpecDecode == InitDecode /\ [][DecNext]_vars

InitBlob == BlobInit /\ DecIdle /\ WriterIdle /\ ProcIdle /\ PipeIdle

SpecBlob == InitBlob /\ [][BlobNext]_vars

InitWriter == WriterInit /\ DecIdle /\ BlobIdle /\ ProcIdle /\ PipeIdle

SpecWriter == InitWriter /\ [][WriterNext]_vars

SpecShortRead == InitBlob /\ [][ShortReadNext]_vars

SpecResume == InitBlob /\ [][ResumeNext]_vars

InitRecords == RecordsInit /\ DecIdle /\ BlobIdle /\ ProcIdle /\ PipeIdle

SpecRecords == InitRecords /\ [][RecordsNext]_vars

InitProcess == ProcInit /\ DecIdle /\ BlobIdle /\ PipeIdle

InitPipeline == PipeInit /\ DecIdle /\ BlobIdle /\ WriterIdle /\ ProcIdle

SpecPipeline == InitPipeline /\ [][PipeNext]_vars

\* the operating system schedules every process that can run, and the
\* queue's feeder thread
FairPipeline ==
    /\ WF_vars(ProducerPut)
    /\ WF_vars(FeederFlush)
    /\ WF_vars(ProducerDone)
    /\ WF_vars(ProducerJoin)
    /\ \A w \in Workers : WF_vars(Worker(w))

SpecPipelineFair == InitPipeline /\ [][PipeNext]_vars /\ FairPipeline

SpecProcess == InitProcess /\ [][ProcNext]_vars

-----------------------------------------------------------------------------
(* Properties of the decoder *)

CumulativeSums(d) == [i \in 1..Len(d) |-> SumTo(d, i)]

\* C7: delta_decode returns the running cumulative sum of its input, starting
\* from 0 for each call: output[i] = d[0] + ... + d[i]; [5, -2, 3] decodes to
\* [5, 3, 6] and [] to []; nothing is carried from one sequence into the next.
C7_DeltaDecodeCumulative ==
    /\ op = "delta_decode" => result = CumulativeSums(arg.values)
    /\ op = "delta_decode_next" => result = CumulativeSums(arg.more)

RECURSIVE SplitAtSentinel(_, _, _, _, _)
\* the tag maps the format defines: one map per 0 sentinel, holding the pairs
\* read since the previous sentinel (ok is FALSE when keys_vals is malformed)
SplitAtSentinel(b, keys_vals, i, tags, out) ==
    IF i > Len(keys_vals) THEN [ok |-> DOMAIN tags = {}, maps |-> out]
    ELSE IF keys_vals[i] = 0
    THEN SplitAtSentinel(b, keys_vals, i + 1, EmptyTags, Append(out, tags))
    ELSE IF i + 1 > Len(keys_vals)
            \/ ~(keys_vals[i] \in 0..(Len(b.stringtable) - 1))
            \/ ~(keys_vals[i + 1] \in 0..(Len(b.stringtable) - 1))
    THEN [ok |-> FALSE, maps |-> out]
    ELSE SplitAtSentinel(b, keys_vals, i + 2,
             DictSet(tags, b.stringtable[keys_vals[i] + 1],
                           b.stringtable[keys_vals[i + 1] + 1]), out)

\* C8: dense-tag decoding splits the flat index sequence at each 0 sentinel
\* into one tag map per node, each map holding only the pairs read since the
\* previous sentinel; [1,2,0,0,3,4,5,6,0] yields [{1:2}, {}, {3:4, 5:6}]; a
\* node's tags never include pairs belonging to an earlier node.
C8_DenseTagsSplitAtSentinel ==
    op = "decode_dense_tags" =>
        LET want == SplitAtSentinel(block, arg.keys_vals, 1, EmptyTags, <<>>)
        IN  want.ok => result.yielded = want.maps

\* two coordinates denote the same angle
SameAngle(a, b) == a = b \/ (a.num = 0 /\ b.num = 0)

HasCoordinate(field, want) == field # None /\ SameAngle(field[1], want)

\* C9: every decoded node, from a plain node record or from a dense-node
\* record, has latitude = 1e-9 * (lat_offset + granularity * v) and longitude
\* = 1e-9 * (lon_offset + granularity * v), v being the raw value (for dense
\* nodes the delta-accumulated value).
C9_CoordinateScaling ==
    LET vd == ValueDecoder(block)
    IN  /\ op = "decode_dense_nodes" =>
             \A j \in 1..Len(result.yielded) :
                 /\ HasCoordinate(result.yielded[j].latitude,
                                  ValueDecoder_lat(vd, SumTo(arg.lat, j)))
                 /\ HasCoordinate(result.yielded[j].longitude,
                                  ValueDecoder_lon(vd, SumTo(arg.lon, j)))
        /\ op = "decode_node" /\ result.ok =>
             /\ HasCoordinate(Some(result.node.latitude), ValueDecoder_lat(vd, arg.lat))
             /\ HasCoordinate(Some(result.node.longitude), ValueDecoder_lon(vd, arg.lon))

RECURSIVE TagLists(_, _, _)
\* the tag lists of a flat sequence: the lists closed by a 0 sentinel from
\* position i on, added to n, and whether entries are left over after the
\* last sentinel
TagLists(keys_vals, i, n) ==
    IF i > Len(keys_vals) THEN [lists |-> n, leftover |-> FALSE]
    ELSE IF keys_vals[i] = 0 THEN TagLists(keys_vals, i + 1, n + 1)
    ELSE IF i + 1 > Len(keys_vals) THEN [lists |-> n, leftover |-> TRUE]
    ELSE IF \A k \in (i + 2)..Len(keys_vals) : keys_vals[k] # 0
    THEN [lists |-> n, leftover |-> TRUE]
    ELSE TagLists(keys_vals, i + 2, n)

\* the arrays of a dense group all describe the same number of nodes
DenseGroupConsistent(dense) ==
    LET n == Len(dense.id)
        tags == TagLists(dense.keys_vals, 1, 0)
    IN  /\ Len(dense.lat) = n
        /\ Len(dense.lon) = n
        /\ Len(dense.denseinfo.version) = n
        /\ Len(dense.denseinfo.timestamp) = n
        /\ Len(dense.denseinfo.changeset) = n
        /\ Len(dense.denseinfo.uid) = n
        /\ Len(dense.denseinfo.user_sid) = n
        /\ tags.lists = n
        /\ ~tags.leftover

\* C15: dense-node decoding consumes the flat tag sequence exactly: if the
\* number of tag lists in keys_vals, or the length of the id, lat, lon or
\* dense-info arrays, differs from the number of dense nodes in the group,
\* decoding the group fails with an error instead of emitting a truncated or
\* misaligned list of nodes.
C15_DenseCountsChecked ==
    (op = "decode_dense_nodes" /\ ~DenseGroupConsistent(arg)) => result.err # "none"

\* index is a place of the block's string table
InStringTable(index) == index \in 0..(Len(block.stringtable) - 1)

\* C16: string lookup is a direct 0-based index into the block's string
\* table, and any index outside 0 .. len(table)-1, a negative index
\* included, is a fatal decode error rather than some table entry: a node is
\* yielded only if the user_sid index looked up for it is in the table, and
\* its user is then the entry at that index.
C16_StringIndexInRange ==
    /\ op = "decode_dense_nodes" =>
          \A j \in 1..Len(result.yielded) :
              LET index == delta_decode(arg.denseinfo.user_sid)[j]
              IN  index # 0 =>
                    /\ InStringTable(index)
                    /\ result.yielded[j].info.user_sid = Some(block.stringtable[index + 1])
    /\ (op = "decode_node" /\ arg.info.user_sid # 0 /\ ~InStringTable(arg.info.user_sid)) =>
          (~result.ok /\ result.err = "IndexError")

-----------------------------------------------------------------------------
(* Properties of the frame reader *)

RECURSIVE FrameStart(_)
\* the byte position at which frame k + 1 of the file starts
FrameStart(k) ==
    IF k = 0 THEN 0
    ELSE FrameStart(k - 1) + 4 + Len(frames[k].header_data) + Len(frames[k].blob_data)

\* C10: reading a sequence of written frames with read_blobs yields the same
\* frames in order with byte-identical header and payload; each payload's
\* length equals its header's datasize; the stream position after each frame
\* is the start of the next frame; the end of the stream ends the iteration
\* without error.
C10_FrameRoundTrip ==
    rpc # "writing" =>
        /\ rpc \in {"reading", "done"}
        /\ Len(blobs) <= Len(frames)
        /\ \A i \in 1..Len(blobs) :
             /\ blobs[i].header_data = frames[i].header_data
             /\ blobs[i].blob_data = frames[i].blob_data
             /\ blobs[i].header.type = frames[i].type
             /\ blobs[i].header.datasize = Len(blobs[i].blob_data)
        /\ pos = FrameStart(Len(blobs))
        /\ rpc = "done" => Len(blobs) = Len(frames)

C10_Witness ==
    /\ rpc = "done"
    /\ Len(blobs) = 2
    /\ blobs[1].blob_data # <<>>
    /\ blobs[1].header.type # blobs[2].header.type

\* the frames of `frames` that the file holds whole
WholeFrames == Cardinality({k \in 1..Len(frames) : FrameStart(k) <= Len(stream)})

\* C11: short reads are fatal: when the stream ends inside a frame (in its
\* length prefix, its header or its payload) no frame is returned for it and
\* the iteration does not end as a clean end-of-stream; only zero bytes at a
\* frame boundary end it cleanly.
C11_ShortReadFatal ==
    rpc # "writing" =>
        /\ Len(blobs) <= WholeFrames
        /\ rpc = "done" => Len(stream) = FrameStart(WholeFrames)

\* C17: offset-resumable reads compose: starting at offset 0 and calling
\* read_n_at(n, offset) with the offset the previous call returned returns
\* every frame of the file exactly once and in file order (each call the
\* next n frames, or all that remain), each returned offset is the byte
\* position of the frame boundary just after the last frame returned, and a
\* call at the end-of-file offset returns no frames and the same offset.
C17_ResumableReadsCompose ==
    rpc # "writing" =>
        /\ rpc = "resuming"
        /\ Len(blobs) <= Len(frames)
        /\ \A i \in 1..Len(blobs) :
             /\ blobs[i].header_data = frames[i].header_data
             /\ blobs[i].blob_data = frames[i].blob_data
             /\ blobs[i].header.type = frames[i].type
        /\ pos = FrameStart(Len(blobs))
        /\ rcall # None =>
             /\ rcall[1].returned = Min({rcall[1].n, Len(frames) - rcall[1].before})
             /\ Len(blobs) = rcall[1].before + rcall[1].returned
             /\ rcall[1].new_offset = pos
             /\ rcall[1].offset = Len(stream) =>
                  (rcall[1].returned = 0 /\ rcall[1].new_offset = rcall[1].offset)

\* two frames were read by two calls, then a call was made at the end of the file
C17_Witness ==
    /\ rpc = "resuming"
    /\ Len(frames) = 2
    /\ blobs # <<>>
    /\ Len(blobs) = Len(frames)
    /\ rcall # None
    /\ rcall[1].n = 1
    /\ rcall[1].offset = Len(stream)
    /\ rcall[1].returned = 0

-----------------------------------------------------------------------------
(* Properties of ParquetBatchWriter (the stream "blobs" of SpecWriter) *)

TheWriter == pbw["blobs"]

TheFiles == pq["blobs"]

\* the last call was a write of a non-empty batch that returned normally
Wrote == wlast.op = "write" /\ wlast.batch # None /\ ~wlast.raised

\* max_rows_per_file is set, by the code's own test (a number other than 0)
RowLimitSet == wcfg.max_rows_per_file # None /\ wcfg.max_rows_per_file[1] # 0

RowLimit == wcfg.max_rows_per_file[1]

\* C2 as stated: with max_rows_per_file = M set, after every write the current
\* file is closed and cleared exactly when its cumulative written rows are
\* >= M, and never earlier.
C2_ClosedExactlyAtRowLimit ==
    (RowLimitSet /\ Wrote) => (TheWriter.writer = None <=> wlast.rows >= RowLimit)

\* C2 (amended): with max_rows_per_file = M >= 1, after every write of a
\* non-empty batch that returns without error the file is closed and cleared
\* if its written rows are >= M, and only then when max_file_size is not
\* set; a file closed by the row trigger holds >= M rows and, when no
\* filesystem call has failed, held < M rows before its last batch; four
\* batches of 400 rows with M = 1000 rotate once, after the third batch at
\* 1200 rows, and yield exactly two files.
C2_RowRotation ==
    /\ (RowLimitSet /\ Wrote) =>
         /\ wlast.rows >= RowLimit => (TheWriter.writer = None /\ wlast.by = "rows")
         /\ wcfg.max_file_size = None =>
              (TheWriter.writer = None <=> wlast.rows >= RowLimit)
    /\ (wlast.op = "write" /\ wlast.by = "rows") =>
         /\ RowLimitSet
         /\ wlast.rows >= RowLimit
         /\ faults = 0 => wlast.rows - wlast.batch[1] < RowLimit
    /\ ( /\ wcfg = [max_rows_per_file |-> Some(1000), max_file_size |-> None]
         /\ wtotal.all400 /\ ~wtotal.closes /\ faults = 0
         /\ wlast.op = "write" /\ wlast.batch # None ) =>
         /\ wtotal.batches \in {1, 2} => (TheFiles.opened = 1 /\ TheFiles.closed = 0)
         /\ wtotal.batches = 3 =>
              /\ wlast.rows = 1200 /\ wlast.by = "rows"
              /\ TheFiles.opened = 1 /\ TheFiles.closed = 1
         /\ wtotal.batches = 4 =>
              /\ TheFiles.opened = 2 /\ TheFiles.closed = 1
              /\ TheWriter.file_index = 2

C2_Witness ==
    /\ wcfg = [max_rows_per_file |-> Some(1000), max_file_size |-> None]
    /\ wtotal.all400 /\ wtotal.batches = 4 /\ ~wtotal.closes /\ faults = 0
    /\ wlast.op = "write" /\ wlast.batch = Some(400)
    /\ TheFiles.opened = 2

\* C3: the on-disk size of the current file is probed only after a write that
\* makes the number of batches written to that file a multiple of 10 (and
\* max_file_size is set); the file is rotated by the size trigger exactly
\* when that probe finds size >= max_file_size; the two triggers are
\* independent: the row trigger fires whatever max_file_size is, and the size
\* trigger whatever max_rows_per_file is.
C3_SizeRotation ==
    wlast.op = "write" =>
        /\ wlast.probed =>
             /\ wcfg.max_file_size # None
             /\ wlast.batch # None
             /\ wlast.batches > 0 /\ wlast.batches % 10 = 0
        /\ wlast.by = "size" <=>
             (wlast.size # None /\ wlast.size[1] >= wcfg.max_file_size[1])
        /\ (wlast.by = "size" /\ ~wlast.raised) => TheWriter.writer = None
        /\ (Wrote /\ RowLimitSet /\ wlast.rows >= RowLimit) => wlast.by = "rows"
        /\ ( /\ Wrote /\ wcfg.max_file_size # None /\ wlast.batches % 10 = 0
             /\ ~(RowLimitSet /\ wlast.rows >= RowLimit) ) => wlast.probed

C3_Witness ==
    /\ wlast.op = "write" /\ wlast.by = "size" /\ ~wlast.raised
    /\ wcfg.max_rows_per_file = Some(1000)
    /\ wlast.batches = 10
    /\ TheWriter.writer = None

\* C4: close() is idempotent: a close() right after a close() that returned
\* changes nothing and raises no error, and close() on a writer with no open
\* file (never written, just rotated, or already closed) is a no-op.
C4_CloseIdempotent ==
    [][ wlast'.op = "close" =>
          /\ (wlast.op = "close" /\ ~wlast.raised) => TheWriter.writer = None
          /\ TheWriter.writer = None =>
               /\ pbw' = pbw
               /\ pq' = pq
               /\ ~wlast'.raised
               /\ faults' = faults ]_vars

C4_Witness ==
    /\ wlast.op = "close" /\ wlast.again /\ ~wlast.raised
    /\ TheFiles.closed = 1 /\ TheFiles.close_calls = 1

\* C5: write(batch) with an empty batch is a no-op: it opens no file, does not
\* advance the file index and leaves the row and batch counters unchanged; a
\* file is opened only lazily, by a non-empty write that finds no file open
\* (the first after construction or after a rotation).
C5_EmptyWriteNoOp ==
    [][ /\ (wlast'.op = "write" /\ wlast'.batch = None) =>
             /\ pbw' = pbw
             /\ pq' = pq
             /\ ~wlast'.raised
             /\ faults' = faults
        /\ pq'["blobs"].opened # pq["blobs"].opened =>
             /\ wlast'.op = "write" /\ wlast'.batch # None
             /\ pbw["blobs"].writer = None
             /\ pq'["blobs"].opened = pq["blobs"].opened + 1
             /\ pbw'["blobs"].file_index = pbw["blobs"].file_index + 1 ]_vars

C5_Witness ==
    /\ wlast.op = "write" /\ wlast.batch = None
    /\ TheWriter.writer = None
    /\ TheFiles.opened = 1 /\ TheFiles.closed = 1
    /\ TheWriter.file_index = 1

-----------------------------------------------------------------------------
(* Properties of the per-partition element writer *)

\* C6: when processing of a partition ends, by normal completion or by an
\* error raised at any step (including an error raised while closing one of
\* the streams), close() has been run on each of the three entity-kind
\* streams, so none of them still has an open file.
C6_ScopedClose ==
    ppc \in {"returned", "raised"} =>
        /\ closeRun = Streams
        /\ \A st \in Streams :
             /\ pbw[st].writer = None
             /\ pq[st].opened = pq[st].closed

-----------------------------------------------------------------------------
(* Properties of the statistics pipeline *)

\* C1: pipeline draining: the producer puts N items on the work queue and
\* then sets the flag; whatever the interleaving of the puts, the flag write
\* and the workers' empty-checks and pops, no item is left in the queue when
\* all workers have exited: every one of the N items has been popped and
\* processed by some worker.
C1_PipelineDraining ==
    (\A w \in Workers : wpc[w] = "exited") =>
        /\ qbuf = <<>>
        /\ qpipe = <<>>
        /\ decoded = 1..nitems

\* the work queue holds nothing, in its buffer or in its pipe
QueueEmpty == qbuf = <<>> /\ qpipe = <<>>

\* a worker has left its loop only if the flag is set and the queue is empty
ExitedOnlyWhenDrained ==
    \A w \in Workers : wpc[w] = "exited" => (done = 0 /\ QueueEmpty)

\* once the flag is set and the queue has drained, every worker leaves its
\* loop and the producer's join on all workers returns
JoinReturns ==
    (done = 0 /\ QueueEmpty) ~>
        ((\A w \in Workers : wpc[w] \in {"exited", "crashed"}) /\ mpc = "finished")

\* C13: worker termination: a worker never exits while the flag is unset or
\* the queue is non-empty, and once the producer has set the flag and the
\* queue has drained every worker eventually leaves its loop, so the
\* producer's join on all workers eventually returns.
C13_WorkerTermination == []ExitedOnlyWhenDrained /\ JoinReturns

\* C14: the producer never enqueues a frame whose declared type is the
\* header-block type: every item on the queue, held by a worker or decoded
\* by one as a primitive block comes from a data-type frame.
C14_OnlyDataFramesQueued ==
    /\ \A i \in 1..Len(qbuf) : ftypes[qbuf[i]] = "OSMData"
    /\ \A i \in 1..Len(qpipe) : ftypes[qpipe[i]] = "OSMData"
    /\ \A w \in Workers : wdata[w] # None => ftypes[wdata[w][1]] = "OSMData"
    /\ \A i \in decoded : ftypes[i] = "OSMData"

-----------------------------------------------------------------------------
(* Properties of decompress_blob and Writer.write_elements *)

\* C12: a payload whose compression variant is unset makes decompression
\* fail with an error and return no bytes, and when the element writer is
\* given such a payload no rows are appended to any output file, no file is
\* created and no writer counter changes (a writer keeps its file index, and
\* its open file, if still open, its written_rows and written_batches); a
\* payload with the raw variant set is returned unchanged.
C12_UnsetVariantWritesNothing ==
    [][ (pdone' # pdone /\ wlast'.blob # None) =>
          /\ wlast'.blob[1].variant = "none" =>
               /\ wlast'.raised
               /\ wlast'.err = "ValueError"
               /\ wlast'.data = None
               /\ \A st \in Streams :
                    /\ pq'[st].data = pq[st].data
                    /\ pq'[st].opened = pq[st].opened
                    /\ pbw'[st].file_index = pbw[st].file_index
                    /\ pbw'[st].writer \in {pbw[st].writer, None}
          /\ wlast'.blob[1].variant = "raw" =>
               wlast'.data = Some(wlast'.blob[1].payload) ]_vars

\* a block of two nodes was written, then a payload with no variant was given
C12_Witness ==
    /\ wlast.op = "elements"
    /\ wlast.blob # None
    /\ wlast.blob[1].variant = "none"
    /\ wlast.raised
    /\ Len(pq["nodes"].data) = 1
    /\ pq["nodes"].data[1].batches = <<2>>

-----------------------------------------------------------------------------
(* Properties of the files of a ParquetBatchWriter *)

RECURSIVE FileRows(_, _)
\* the num_rows of the batches held by the first k files, in file order
FileRows(data, k) == IF k = 0 THEN <<>> ELSE FileRows(data, k - 1) \o data[k].batches

\* C18: rotation never loses data: over any sequence of write calls and
\* close() on one ParquetBatchWriter in which no call raised, at most one
\* file is open at any moment, the index of each newly opened file is
\* strictly greater than every index used before, and the rows held by the
\* files, taken in file-index order, are exactly the rows of the non-empty
\* batches written, in write order; after close() no file is open.
C18_RotationKeepsRows ==
    faults = 0 =>
        LET files == TheFiles
        IN  /\ files.opened - files.closed \in {0, 1}
            /\ files.opened - files.closed = 1 <=> TheWriter.writer # None
            /\ \A i, j \in 1..Len(files.data) : i < j => files.data[i].index < files.data[j].index
            /\ FileRows(files.data, Len(files.data)) = wlog
            /\ wlast.op = "close" => files.opened = files.closed

\* four batches went to three files by the row limit, then close() was called
C18_Witness ==
    /\ faults = 0
    /\ wlast.op = "close"
    /\ Len(wlog) = 4
    /\ Len(TheFiles.data) = 3
    /\ TheFiles.data[1].batches = <<1, 2>>
    /\ TheFiles.closed = 3

=============================================================================
